---- MODULE Spec2Model ----
(***************************************************************************)
(* Verification model of the lodestar block verification core:            *)
(*   - verifyBlocks  (backfill verification of a run of historical blocks)*)
(*   - processBlock  (per-block state transition)                         *)
(*   - initStateFromEth1 / initStateFromAnchorState / initStateFromDb     *)
(*   - computeAnchorCheckpoint and restoreStateCaches                     *)
(* Roots are natural numbers; 0 is the zero hash.  Hashing is modelled by *)
(* an injective encoding whose value is strictly larger than every root   *)
(* the hashed value contains, so that there are neither collisions nor    *)
(* hash cycles.                                                            *)
(***************************************************************************)
EXTENDS Integers, Sequences, FiniteSets, TLC

\* ------------------------------------------------------------------ bounds
MaxBlocks == 2
MaxParentRoot == 2
MaxBody == 1

ZERO_HASH == 0

Keys == {1, 2}

VARIABLES
    \* verifyBlocks
    state,       \* the CachedBeaconState argument: the proposer pubkey it resolves
    argBlocks,   \* the block list as it was passed by the caller (oldest first)
    blocks,      \* the caller's array object, as it is now
    anchorRoot,  \* the anchorRoot argument
    pc,          \* position inside verifyBlocks
    idx,         \* position of the for-of iterator over the (reversed) array
    nextRoot,    \* const nextRoot
    signatures,  \* the array handed to bls.verifySignatureSets
    blsCalls,    \* number of invocations of bls.verifySignatureSets
    blsResult,   \* what the batch verifier answered
    compares,    \* number of linkage comparisons performed
    passed,      \* number of blocks whose linkage comparison passed
    err,         \* the BackfillSyncErrorCode thrown, "none" if none
    \* processBlock
    pbState,     \* the BeaconState object supplied by the caller, as it is now
    pbPre,       \* the value that object had when processBlock was called
    pbBlock,     \* the block argument
    pbVerify,    \* the verify argument
    pbPc,        \* position inside processBlock
    pbRan,       \* the stages started so far, in order
    pbErr,       \* the condition signalled, "none" if none
    \* anchor state initialisation
    iEntry,      \* the initialiser running or run last: "eth1", "anchor", "db"; "none" before
    iPc,         \* its position: "start", "waiting", "persisting", "returned", "failed"
    iState,      \* the anchor state given, or the state of the genesis result
    iGenesis,    \* the eth1 block and the deposit tree of the genesis result
    iResult,     \* the state returned to the caller, <<>> while none
    iErr,        \* the error the call failed with, "none" if none
    wstatus,     \* per store, the write of the current call: "none", "pending", "done", "failed"
    db,          \* the contents of the stores
    dbAtCall,    \* the contents of the stores when the current call was made
    prev,        \* the initialiser that returned before the current call, and its state
    \* anchor checkpoint and state caches
    cpState,     \* the state object given to computeAnchorCheckpoint / restoreStateCaches
    cpOrig,      \* the value of that object at the start
    cpResults,   \* what the calls of computeAnchorCheckpoint returned, in order
    heap,        \* the CachedState objects created so far
    stateCache,  \* StateContextCache: state root -> CachedState object
    checkpointStateCache,  \* CheckpointStateCache: checkpoint -> CachedState object
    restored     \* number of calls of restoreStateCaches made

vbVars == <<state, argBlocks, blocks, anchorRoot, pc, idx, nextRoot, signatures,
            blsCalls, blsResult, compares, passed, err>>

pbVars == <<pbState, pbPre, pbBlock, pbVerify, pbPc, pbRan, pbErr>>

iVars == <<iEntry, iPc, iState, iGenesis, iResult, iErr, wstatus, db, dbAtCall, prev>>

cVars == <<cpState, cpOrig, cpResults, heap, stateCache, checkpointStateCache, restored>>

vars == <<vbVars, pbVars, iVars, cVars>>

notVbVars == <<pbVars, iVars, cVars>>

notPbVars == <<vbVars, iVars, cVars>>

notIVars == <<vbVars, pbVars, cVars>>

notCVars == <<vbVars, pbVars, iVars>>

\* ------------------------------------------------------------ data model
Bodies == 0..MaxBody

Messages == [parentRoot : 0..MaxParentRoot, body : Bodies]

\* BeaconBlock.hashTreeRoot(block.message)
HashTreeRoot(message) == 1 + message.body + (MaxBody + 1) * message.parentRoot

MaxRoot == HashTreeRoot([parentRoot |-> MaxParentRoot, body |-> MaxBody])

Roots == 0..MaxRoot

\* A signature over a signing root by the holder of a key
Sign(key, root) == [by |-> key, over |-> root]

SignedBlocks ==
    {[message |-> m, signature |-> Sign(k, HashTreeRoot(m))] : m \in Messages, k \in Keys}

RECURSIVE SeqsUpTo(_, _)
SeqsUpTo(S, n) ==
    IF n = 0 THEN {<<>>}
    ELSE LET shorter == SeqsUpTo(S, n - 1)
         IN  shorter \cup {Append(s, x) : s \in {t \in shorter : Len(t) = n - 1}, x \in S}

\* Array.prototype.reverse
Reverse(s) == [i \in 1..Len(s) |-> s[Len(s) + 1 - i]]

\* allForks.getProposerSignatureSet(state, block)
getProposerSignatureSet(st, block) ==
    [pubkey      |-> st.proposerPubkey,
     signingRoot |-> HashTreeRoot(block.message),
     signature   |-> block.signature]

\* one signature set is valid when the signature is the pubkey's over the signing root
SetValid(set) == set.signature = Sign(set.pubkey, set.signingRoot)

\* bls.verifySignatureSets(sets): one aggregate boolean
verifySignatureSets(sets) == \A i \in 1..Len(sets) : SetValid(sets[i])

\* ---------------------------------------------------------- verifyBlocks
\* ssz.Root.equals(hashTreeRoot(block.message), nextRoot)
LinkOk(block, expected) == HashTreeRoot(block.message) = expected

\* the error thrown on a linkage mismatch
LinkError(expected, anchor) ==
    IF expected = anchor THEN "NOT_ANCHORED" ELSE "NOT_LINEAR"

\* the expected linking root for the next iteration: nextRoot is a const
NextRootAfter(expected, block) == expected

\* mutant: the map misses the last element of the array
ProposerSignatureSets_DropLast(st, bs) ==
    [i \in 1..(Len(bs) - 1) |-> getProposerSignatureSet(st, bs[i])]

\* blocks.map((block) => getProposerSignatureSet(state, block))
ProposerSignatureSets(st, bs) == [i \in 1..Len(bs) |-> getProposerSignatureSet(st, bs[i])]

\* verifyBlocks has been called with some state, block list and anchor root
VBCalled ==
    /\ state \in [proposerPubkey : Keys]
    /\ argBlocks \in SeqsUpTo(SignedBlocks, MaxBlocks)
    /\ anchorRoot \in Roots
    /\ pc = "call"

\* verifyBlocks is not running
VBIdle ==
    /\ state = [proposerPubkey |-> 1]
    /\ argBlocks = <<>>
    /\ anchorRoot = ZERO_HASH
    /\ pc = "idle"

VBLocals ==
    /\ blocks = argBlocks
    /\ idx = 0
    /\ nextRoot = ZERO_HASH
    /\ signatures = <<>>
    /\ blsCalls = 0
    /\ blsResult = "none"
    /\ compares = 0
    /\ passed = 0
    /\ err = "none"

\* mutant: no early return for the empty list
VB_Enter_NoEmptyReturn ==
    /\ pc = "call"
    /\ nextRoot' = anchorRoot
    /\ blocks' = Reverse(blocks)
    /\ idx' = 1
    /\ pc' = IF Len(blocks) = 0 THEN "sign" ELSE "loop"
    /\ UNCHANGED <<state, argBlocks, anchorRoot, signatures, blsCalls, blsResult,
                   compares, passed, err>>
    /\ UNCHANGED notVbVars

\* entry: empty list returns at once; otherwise nextRoot is bound and the
\* for-of loop starts over blocks.reverse(), which reverses the array in place
VB_Enter ==
    /\ pc = "call"
    /\ IF Len(blocks) = 0
       THEN /\ pc' = "done"
            /\ UNCHANGED <<blocks, nextRoot, idx>>
       ELSE /\ nextRoot' = anchorRoot
            /\ blocks' = Reverse(blocks)
            /\ idx' = 1
            /\ pc' = "loop"
    /\ UNCHANGED <<state, argBlocks, anchorRoot, signatures, blsCalls, blsResult,
                   compares, passed, err>>
    /\ UNCHANGED notVbVars

\* mutant: a linkage mismatch is recorded but the loop goes on
VB_Check_NoThrow ==
    /\ pc = "loop"
    /\ compares' = compares + 1
    /\ IF LinkOk(blocks[idx], nextRoot)
       THEN passed' = passed + 1 /\ err' = err
       ELSE passed' = passed /\ err' = LinkError(nextRoot, anchorRoot)
    /\ nextRoot' = NextRootAfter(nextRoot, blocks[idx])
    /\ idx' = idx + 1
    /\ pc' = IF idx = Len(blocks) THEN "sign" ELSE "loop"
    /\ UNCHANGED <<state, argBlocks, blocks, anchorRoot, signatures, blsCalls, blsResult>>
    /\ UNCHANGED notVbVars

\* one iteration of the loop body
VB_Check ==
    /\ pc = "loop"
    /\ compares' = compares + 1
    /\ IF LinkOk(blocks[idx], nextRoot)
       THEN /\ passed' = passed + 1
            /\ nextRoot' = NextRootAfter(nextRoot, blocks[idx])
            /\ idx' = idx + 1
            /\ pc' = IF idx = Len(blocks) THEN "sign" ELSE "loop"
            /\ err' = err
       ELSE /\ err' = LinkError(nextRoot, anchorRoot)
            /\ pc' = "done"
            /\ UNCHANGED <<passed, nextRoot, idx>>
    /\ UNCHANGED <<state, argBlocks, blocks, anchorRoot, signatures, blsCalls, blsResult>>
    /\ UNCHANGED notVbVars

\* the signature sets are extracted and the batch verifier is invoked
VB_Sign ==
    /\ pc = "sign"
    /\ signatures' = ProposerSignatureSets(state, blocks)
    /\ blsCalls' = blsCalls + 1
    /\ pc' = "await"
    /\ UNCHANGED <<state, argBlocks, blocks, anchorRoot, idx, nextRoot, blsResult,
                   compares, passed, err>>
    /\ UNCHANGED notVbVars

\* the awaited answer of the batch verifier
VB_Resolve ==
    /\ pc = "await"
    /\ blsResult' = verifySignatureSets(signatures)
    /\ err' = IF verifySignatureSets(signatures) THEN err ELSE "INVALID_SIGNATURE"
    /\ pc' = "done"
    /\ UNCHANGED <<state, argBlocks, blocks, anchorRoot, idx, nextRoot, signatures,
                   blsCalls, compares, passed>>
    /\ UNCHANGED notVbVars

\* ---------------------------------------------------------- processBlock
MaxSlot == 1
MaxOps == 2

Slots == 0..MaxSlot

\* hash of a block header [slot, parentRoot]
HashHeader(h) == 1 + h.slot + (MaxSlot + 1) * h.parentRoot

\* hash of a BeaconState
HashState(st) ==
    1 + st.slot + (MaxSlot + 1) * (st.randaoMix + 2 * (st.eth1DataVotes + 2 * (st.exits
        + (MaxOps + 1) * HashHeader(st.latestBlockHeader))))

\* the header stage: the block must be for the state's slot and must name the
\* state's latest block header as its parent; the block's header then becomes
\* the state's latest block header.  The verify flag is received as the code
\* passes it; the specification describes no use of it in this stage.
processBlockHeader(st, block, verify) ==
    LET ok == /\ block.slot = st.slot
              /\ block.parentRoot = HashHeader(st.latestBlockHeader)
    IN  [ok    |-> ok,
         state |-> IF ok
                   THEN [st EXCEPT !.latestBlockHeader =
                             [slot |-> block.slot, parentRoot |-> block.parentRoot]]
                   ELSE st]

\* the randao stage: a valid reveal (non-zero) is mixed into the randao mix
processRandao(st, body) ==
    LET ok == body.randaoReveal # 0
    IN  [ok    |-> ok,
         state |-> IF ok
                   THEN [st EXCEPT !.randaoMix = (st.randaoMix + body.randaoReveal) % 2]
                   ELSE st]

\* the eth1 data stage: a valid vote (non-zero) is added to the tally
processEth1Data(st, body) ==
    LET ok == body.eth1Data # 0
    IN  [ok    |-> ok,
         state |-> IF ok THEN [st EXCEPT !.eth1DataVotes = st.eth1DataVotes + 1] ELSE st]

\* the operations stage: the operations are applied in order, each in place;
\* the first invalid one aborts the stage, those before it stay applied
RECURSIVE processOperationList(_, _)
processOperationList(st, ops) ==
    IF ops = <<>> THEN [ok |-> TRUE, state |-> st]
    ELSE IF Head(ops) = "invalid" THEN [ok |-> FALSE, state |-> st]
    ELSE processOperationList([st EXCEPT !.exits = st.exits + 1], Tail(ops))

processOperations(st, body) == processOperationList(st, body.operations)

\* the state-root check: the declared root must be the hash of the state
verifyBlockStateRoot(st, block) ==
    [ok |-> block.stateRoot = HashState(st), state |-> st]

\* the state an honest proposer obtains by applying the four stages
StagesApplied(st, block) ==
    LET a == processBlockHeader(st, block, TRUE)
        b == processRandao(a.state, block.body)
        c == processEth1Data(b.state, block.body)
        d == processOperations(c.state, block.body)
    IN  [ok |-> a.ok /\ b.ok /\ c.ok /\ d.ok, state |-> d.state]

BeaconStates ==
    [slot : Slots,
     latestBlockHeader : [slot : Slots, parentRoot : 0..1],
     randaoMix : 0..1,
     eth1DataVotes : {0},
     exits : {0}]

BlockBodies ==
    [randaoReveal : 0..1,
     eth1Data : 0..1,
     operations : SeqsUpTo({"valid", "invalid"}, MaxOps)]

MaxHeaderRoot == HashHeader([slot |-> MaxSlot, parentRoot |-> 1])

\* processBlock has been called with some state, block and verify flag
PBCalled ==
    /\ pbPre \in BeaconStates
    /\ pbVerify \in BOOLEAN
    /\ \E sl \in Slots, pr \in 0..MaxHeaderRoot, bd \in BlockBodies, honest \in BOOLEAN :
          LET unsealed == [slot |-> sl, parentRoot |-> pr, stateRoot |-> ZERO_HASH, body |-> bd]
          IN  pbBlock = IF honest
                        THEN [unsealed EXCEPT !.stateRoot =
                                  HashState(StagesApplied(pbPre, unsealed).state)]
                        ELSE unsealed
    /\ pbPc = "header"

\* processBlock is not running
PBIdle ==
    /\ pbPre = [slot |-> 0, latestBlockHeader |-> [slot |-> 0, parentRoot |-> 0],
                randaoMix |-> 0, eth1DataVotes |-> 0, exits |-> 0]
    /\ pbVerify = TRUE
    /\ pbBlock = [slot |-> 0, parentRoot |-> 0, stateRoot |-> ZERO_HASH,
                  body |-> [randaoReveal |-> 0, eth1Data |-> 0, operations |-> <<>>]]
    /\ pbPc = "idle"

PBLocals ==
    /\ pbState = pbPre
    /\ pbRan = <<>>
    /\ pbErr = "none"

\* mutant: a failing stage restores the state it was called with
PB_Stage_Rollback(name, r, nextPc, code) ==
    /\ pbPc = name
    /\ pbRan' = Append(pbRan, name)
    /\ IF r.ok
       THEN pbState' = r.state /\ pbPc' = nextPc /\ pbErr' = pbErr
       ELSE pbState' = pbPre /\ pbPc' = "failed" /\ pbErr' = code
    /\ UNCHANGED <<pbPre, pbBlock, pbVerify>>
    /\ UNCHANGED notPbVars

\* mutant: a stage is handed a copy of the state
PB_Stage_OnCopy(name, r, nextPc, code) ==
    /\ pbPc = name
    /\ pbRan' = Append(pbRan, name)
    /\ pbState' = pbState
    /\ IF r.ok
       THEN pbPc' = nextPc /\ pbErr' = pbErr
       ELSE pbPc' = "failed" /\ pbErr' = code
    /\ UNCHANGED <<pbPre, pbBlock, pbVerify>>
    /\ UNCHANGED notPbVars

\* mutant: a failing stage is recorded but the next stage runs all the same
PB_Stage_Continue(name, r, nextPc, code) ==
    /\ pbPc = name
    /\ pbRan' = Append(pbRan, name)
    /\ pbState' = r.state
    /\ pbPc' = nextPc
    /\ pbErr' = IF r.ok THEN pbErr ELSE code
    /\ UNCHANGED <<pbPre, pbBlock, pbVerify>>
    /\ UNCHANGED notPbVars

\* one stage of processBlock: the stage works on the caller's state object; if
\* it throws, the exception leaves processBlock, otherwise the next stage is next
PB_Stage(name, r, nextPc, code) ==
    /\ pbPc = name
    /\ pbRan' = Append(pbRan, name)
    /\ pbState' = r.state
    /\ IF r.ok
       THEN pbPc' = nextPc /\ pbErr' = pbErr
       ELSE pbPc' = "failed" /\ pbErr' = code
    /\ UNCHANGED <<pbPre, pbBlock, pbVerify>>
    /\ UNCHANGED notPbVars

\* mutant: the state-root check is never made
AfterOperations_Skip(verify) == "done"

\* mutant: the test of the flag is inverted
AfterOperations_Inverted(verify) == IF verify THEN "done" ELSE "root"

\* if (verify) { verifyBlockStateRoot(state, block) }
AfterOperations(verify) == IF verify THEN "root" ELSE "done"

PB_Header ==
    PB_Stage("header", processBlockHeader(pbState, pbBlock, pbVerify), "randao",
             "INVALID_HEADER")

PB_Randao ==
    PB_Stage("randao", processRandao(pbState, pbBlock.body), "eth1", "INVALID_RANDAO")

PB_Eth1Data ==
    PB_Stage("eth1", processEth1Data(pbState, pbBlock.body), "operations",
             "INVALID_ETH1_DATA")

PB_Operations ==
    PB_Stage("operations", processOperations(pbState, pbBlock.body),
             AfterOperations(pbVerify), "INVALID_OPERATION")

PB_VerifyStateRoot ==
    PB_Stage("root", verifyBlockStateRoot(pbState, pbBlock), "done", "STATE_ROOT_MISMATCH")

\* ------------------------------------------- anchor state initialisation
MaxAnchorSlot == 3
MaxDeposits == 1

GENESIS_SLOT == 0

SlotsPerEpoch == 2

\* computeEpochAtSlot(config, slot)
computeEpochAtSlot(slot) == slot \div SlotsPerEpoch

\* BeaconBlockBody.hashTreeRoot(body); the default body is 0
HashBody(body) == body + 1

\* BeaconBlockHeader.hashTreeRoot(header)
HashBlockHeader(h) ==
    1 + h.slot + (MaxAnchorSlot + 1) * (h.proposerIndex + 2 * (h.parentRoot
        + 2 * (h.bodyRoot + 3 * h.stateRoot)))

\* BeaconState.hashTreeRoot(state)
HashBeaconState(st) ==
    1 + st.slot + (MaxAnchorSlot + 1) * HashBlockHeader(st.latestBlockHeader)

\* BeaconBlock.defaultValue()
DefaultBeaconBlock ==
    [slot |-> 0, proposerIndex |-> 0, parentRoot |-> ZERO_HASH, stateRoot |-> ZERO_HASH,
     body |-> 0]

\* SignedBeaconBlock.defaultValue()
DefaultSignedBeaconBlock == [message |-> DefaultBeaconBlock, signature |-> 0]

\* blockToHeader(config, block)
blockToHeader(block) ==
    [slot          |-> block.slot,
     proposerIndex |-> block.proposerIndex,
     parentRoot    |-> block.parentRoot,
     stateRoot     |-> block.stateRoot,
     bodyRoot      |-> HashBody(block.body)]

\* the block headers a state can hold: the header of some block, its state
\* root zero or recorded
StateHeaders(slot) ==
    [slot : 0..slot, proposerIndex : 0..1, parentRoot : 0..1, stateRoot : 0..1,
     bodyRoot : {HashBody(0), HashBody(1)}]

\* TreeBacked<BeaconState>
AnchorStates ==
    UNION {[slot : {sl}, latestBlockHeader : StateHeaders(sl)] : sl \in 0..MaxAnchorSlot}

\* mutant: the state root of the genesis block is left at its default
createGenesisBlock_NoStateRoot(genesisState) == DefaultSignedBeaconBlock

\* createGenesisBlock(config, genesisState)
createGenesisBlock(genesisState) ==
    LET genesisBlock == DefaultSignedBeaconBlock
        stateRoot == HashBeaconState(genesisState)
    IN  [genesisBlock EXCEPT !.message.stateRoot = stateRoot]

\* the stored form of a state and its reading back
SerializeState(st) ==
    <<st.slot, st.latestBlockHeader.slot, st.latestBlockHeader.proposerIndex,
      st.latestBlockHeader.parentRoot, st.latestBlockHeader.stateRoot,
      st.latestBlockHeader.bodyRoot>>

DeserializeState(bytes) ==
    [slot |-> bytes[1],
     latestBlockHeader |->
        [slot |-> bytes[2], proposerIndex |-> bytes[3], parentRoot |-> bytes[4],
         stateRoot |-> bytes[5], bodyRoot |-> bytes[6]]]

\* db.stateArchive.lastValue(): the most recently archived state, <<>> for null
lastValue(archive) ==
    IF archive = <<>> THEN <<>> ELSE <<DeserializeState(archive[Len(archive)])>>

\* depositTree.hashTreeRoot()
RECURSIVE HashDepositTree(_)
HashDepositTree(tree) ==
    IF tree = <<>> THEN 1
    ELSE 2 * HashDepositTree(SubSeq(tree, 1, Len(tree) - 1)) + tree[Len(tree)]

Stores == {"stateArchive", "blockArchive", "depositDataRoot", "eth1Data"}

\* IGenesisResult without its state: the eth1 block and the deposit tree
GenesisData ==
    [block : [timestamp : 0..1, blockNumber : {0}],
     depositTree : SeqsUpTo(0..1, MaxDeposits)]

NoGenesisData == [block |-> [timestamp |-> 0, blockNumber |-> 0], depositTree |-> <<>>]

\* the states waitForGenesis resolves to
GenesisStates == {st \in AnchorStates : st.slot = GENESIS_SLOT}

\* the value each write of persistGenesisResult / persistAnchorState carries
WriteValue(store, st, genesis) ==
    CASE store = "stateArchive" -> SerializeState(st)
      [] store = "blockArchive" -> createGenesisBlock(st)
      [] store = "depositDataRoot" -> genesis.depositTree
      [] store = "eth1Data" ->
            [key   |-> genesis.block.timestamp,
             value |-> [timestamp    |-> genesis.block.timestamp,
                        blockNumber  |-> genesis.block.blockNumber,
                        depositCount |-> Len(genesis.depositTree),
                        depositRoot  |-> HashDepositTree(genesis.depositTree)]]

\* a completed write applied to the stores: add appends, putList replaces the
\* list, put sets the value under its key
ApplyWrite(d, store, value) ==
    CASE store = "stateArchive" -> [d EXCEPT !.stateArchive = Append(@, value)]
      [] store = "blockArchive" -> [d EXCEPT !.blockArchive = Append(@, value)]
      [] store = "depositDataRoot" -> [d EXCEPT !.depositDataRoot = <<value>>]
      [] store = "eth1Data" ->
            [d EXCEPT !.eth1Data = {e \in @ : e.key # value.key} \cup {value}]

\* persistGenesisResult: the four writes of the Promise.all
GenesisWrites == {"stateArchive", "blockArchive", "depositDataRoot", "eth1Data"}

\* mutant: at the genesis slot only the block is written
AnchorWrites_GenesisBlockOnly(anchorState) ==
    IF anchorState.slot = GENESIS_SLOT THEN {"blockArchive"} ELSE {"stateArchive"}

\* persistAnchorState: the writes it issues
AnchorWrites(anchorState) ==
    IF anchorState.slot = GENESIS_SLOT
    THEN {"blockArchive", "stateArchive"}
    ELSE {"stateArchive"}

NoWrites == [s \in Stores |-> "none"]

IssueWrites(stores) == [s \in Stores |-> IF s \in stores THEN "pending" ELSE "none"]

EmptyDb == [stateArchive |-> <<>>, blockArchive |-> <<>>, depositDataRoot |-> <<>>,
            eth1Data |-> {}]

\* the states an earlier run may have archived
ArchivedStates ==
    {st \in AnchorStates : /\ st.latestBlockHeader.proposerIndex = 0
                           /\ st.latestBlockHeader.parentRoot = 0
                           /\ st.latestBlockHeader.bodyRoot = HashBody(0)}

\* the node starts on an empty database or on one holding an archived state
IStart ==
    /\ \E archive \in {<<>>} \cup {<<SerializeState(st)>> : st \in ArchivedStates} :
          db = [EmptyDb EXCEPT !.stateArchive = archive]
    /\ iPc = "start"

\* no initialiser is modelled
IIdle ==
    /\ db = EmptyDb
    /\ iPc = "idle"

ILocals ==
    /\ iEntry = "none"
    /\ iState = CHOOSE st \in AnchorStates : st.slot = GENESIS_SLOT
    /\ iGenesis = NoGenesisData
    /\ iResult = <<>>
    /\ iErr = "none"
    /\ wstatus = NoWrites
    /\ dbAtCall = db
    /\ prev = <<>>

\* initStateFromEth1 is called and waits for genesis
I_CallEth1 ==
    /\ iPc = "start"
    /\ iEntry' = "eth1"
    /\ iPc' = "waiting"
    /\ dbAtCall' = db
    /\ UNCHANGED <<iState, iGenesis, iResult, iErr, wstatus, db, prev>>
    /\ UNCHANGED notIVars

\* waitForGenesis resolves: the genesis block is built and persistGenesisResult
\* issues its four writes
I_GenesisResolved ==
    /\ iEntry = "eth1" /\ iPc = "waiting"
    /\ \E st \in GenesisStates, g \in GenesisData :
          /\ iState' = st
          /\ iGenesis' = g
    /\ wstatus' = IssueWrites(GenesisWrites)
    /\ iPc' = "persisting"
    /\ UNCHANGED <<iEntry, iResult, iErr, db, dbAtCall, prev>>
    /\ UNCHANGED notIVars

\* mutant: the failure of the wait is swallowed and the writes are issued
I_GenesisAborted_Persists ==
    /\ iEntry = "eth1" /\ iPc = "waiting"
    /\ wstatus' = IssueWrites(GenesisWrites)
    /\ iPc' = "failed"
    /\ iErr' = "aborted"
    /\ UNCHANGED <<iEntry, iState, iGenesis, iResult, db, dbAtCall, prev>>
    /\ UNCHANGED notIVars

\* the abort signal fires: waitForGenesis rejects and so does initStateFromEth1
I_GenesisAborted ==
    /\ iEntry = "eth1" /\ iPc = "waiting"
    /\ iPc' = "failed"
    /\ iErr' = "aborted"
    /\ UNCHANGED <<iEntry, iState, iGenesis, iResult, wstatus, db, dbAtCall, prev>>
    /\ UNCHANGED notIVars

\* initStateFromAnchorState is called: persistAnchorState issues its writes
I_CallAnchor ==
    /\ iPc = "start"
    /\ iEntry' = "anchor"
    /\ \E st \in AnchorStates :
          /\ iState' = st
          /\ wstatus' = IssueWrites(AnchorWrites(st))
    /\ iPc' = "persisting"
    /\ dbAtCall' = db
    /\ UNCHANGED <<iGenesis, iResult, iErr, db, prev>>
    /\ UNCHANGED notIVars

\* a pending write completes
I_WriteDone ==
    \E s \in Stores :
        /\ wstatus[s] = "pending"
        /\ wstatus' = [wstatus EXCEPT ![s] = "done"]
        /\ db' = ApplyWrite(db, s, WriteValue(s, iState, iGenesis))
        /\ UNCHANGED <<iEntry, iPc, iState, iGenesis, iResult, iErr, dbAtCall, prev>>
        /\ UNCHANGED notIVars

\* a pending write fails
I_WriteFailed ==
    \E s \in Stores :
        /\ wstatus[s] = "pending"
        /\ wstatus' = [wstatus EXCEPT ![s] = "failed"]
        /\ UNCHANGED <<iEntry, iPc, iState, iGenesis, iResult, iErr, db, dbAtCall, prev>>
        /\ UNCHANGED notIVars

\* mutant: the writes are not awaited
I_JoinResolved_NoAwait ==
    /\ iPc = "persisting"
    /\ iPc' = "returned"
    /\ iResult' = <<iState>>
    /\ UNCHANGED <<iEntry, iState, iGenesis, iErr, wstatus, db, dbAtCall, prev>>
    /\ UNCHANGED notIVars

\* every awaited write has completed: the await ends and the state is returned
I_JoinResolved ==
    /\ iPc = "persisting"
    /\ \A s \in Stores : wstatus[s] \in {"none", "done"}
    /\ iPc' = "returned"
    /\ iResult' = <<iState>>
    /\ UNCHANGED <<iEntry, iState, iGenesis, iErr, wstatus, db, dbAtCall, prev>>
    /\ UNCHANGED notIVars

\* an awaited write has failed: the await rejects and so does the call
I_JoinRejected ==
    /\ iPc = "persisting"
    /\ \E s \in Stores : wstatus[s] = "failed"
    /\ iPc' = "failed"
    /\ iErr' = "write failed"
    /\ UNCHANGED <<iEntry, iState, iGenesis, iResult, wstatus, db, dbAtCall, prev>>
    /\ UNCHANGED notIVars

\* mutant: with no archived state a default state is archived and returned
I_CallDb_DefaultState ==
    /\ \/ iPc = "start"
       \/ iPc = "returned" /\ iEntry \in {"eth1", "anchor"}
    /\ prev' = IF iPc = "returned" THEN <<[entry |-> iEntry, state |-> iState]>> ELSE <<>>
    /\ iEntry' = "db"
    /\ dbAtCall' = db
    /\ wstatus' = NoWrites
    /\ LET st == lastValue(db.stateArchive)
           default == CHOOSE d \in AnchorStates : d.slot = GENESIS_SLOT
       IN  IF st = <<>>
           THEN /\ iPc' = "returned"
                /\ iResult' = <<default>>
                /\ db' = ApplyWrite(db, "stateArchive", SerializeState(default))
                /\ iErr' = iErr
           ELSE /\ iPc' = "returned"
                /\ iResult' = st
                /\ UNCHANGED <<iErr, db>>
    /\ UNCHANGED <<iState, iGenesis>>
    /\ UNCHANGED notIVars

\* initStateFromDb is called, first or after an initialiser that returned: the
\* last archived state is read and returned, or the call fails
I_CallDb ==
    /\ \/ iPc = "start"
       \/ iPc = "returned" /\ iEntry \in {"eth1", "anchor"}
    /\ prev' = IF iPc = "returned" THEN <<[entry |-> iEntry, state |-> iState]>> ELSE <<>>
    /\ iEntry' = "db"
    /\ dbAtCall' = db
    /\ wstatus' = NoWrites
    /\ LET st == lastValue(db.stateArchive)
       IN  IF st = <<>>
           THEN /\ iPc' = "failed"
                /\ iErr' = "No state exists in database"
                /\ iResult' = <<>>
           ELSE /\ iPc' = "returned"
                /\ iResult' = st
                /\ iErr' = iErr
    /\ UNCHANGED <<iState, iGenesis, db>>
    /\ UNCHANGED notIVars

\* --------------------------------- anchor checkpoint and state caches
MaxCheckpointCalls == 2
MaxRestores == 2

\* mutant: the state's own header is patched, not a clone of it
computeAnchorCheckpoint_NoClone(anchorState) ==
    LET stateRoot == HashBeaconState(anchorState)
        genesis == anchorState.latestBlockHeader.slot = GENESIS_SLOT
        patch == ~genesis /\ anchorState.latestBlockHeader.stateRoot = ZERO_HASH
        after == IF patch
                 THEN [anchorState EXCEPT !.latestBlockHeader.stateRoot = stateRoot]
                 ELSE anchorState
        blockHeader ==
            IF genesis
            THEN blockToHeader([DefaultBeaconBlock EXCEPT !.stateRoot = stateRoot])
            ELSE after.latestBlockHeader
    IN  [checkpoint  |-> [root  |-> HashBlockHeader(blockHeader),
                          epoch |-> computeEpochAtSlot(anchorState.slot)],
         blockHeader |-> blockHeader,
         anchorState |-> after]

\* mutant: the state root of the cloned header is always replaced
computeAnchorCheckpoint_AlwaysPatch(anchorState) ==
    LET stateRoot == HashBeaconState(anchorState)
        blockHeader ==
            IF anchorState.latestBlockHeader.slot = GENESIS_SLOT
            THEN blockToHeader([DefaultBeaconBlock EXCEPT !.stateRoot = stateRoot])
            ELSE [anchorState.latestBlockHeader EXCEPT !.stateRoot = stateRoot]
    IN  [checkpoint  |-> [root  |-> HashBlockHeader(blockHeader),
                          epoch |-> computeEpochAtSlot(anchorState.slot)],
         blockHeader |-> blockHeader,
         anchorState |-> anchorState]

\* computeAnchorCheckpoint(config, anchorState): the checkpoint, the block
\* header, and the state object as the call leaves it
computeAnchorCheckpoint(anchorState) ==
    LET stateRoot == HashBeaconState(anchorState)
        blockHeader ==
            IF anchorState.latestBlockHeader.slot = GENESIS_SLOT
            THEN LET block == [DefaultBeaconBlock EXCEPT !.stateRoot = stateRoot]
                 IN  blockToHeader(block)
            ELSE LET clone == anchorState.latestBlockHeader
                 IN  IF clone.stateRoot = ZERO_HASH
                     THEN [clone EXCEPT !.stateRoot = stateRoot]
                     ELSE clone
    IN  [checkpoint  |-> [root  |-> HashBlockHeader(blockHeader),
                          epoch |-> computeEpochAtSlot(anchorState.slot)],
         blockHeader |-> blockHeader,
         anchorState |-> anchorState]

\* createCachedBeaconState(config, state): the state with its epoch context
createCachedBeaconState(st) ==
    [state |-> st, epochCtx |-> [epoch |-> computeEpochAtSlot(st.slot)]]

\* insertion into a cache: an entry under the same key is replaced
CacheAdd(cache, key, obj) == {e \in cache : e.key # key} \cup {[key |-> key, obj |-> obj]}

\* the caches are empty, or hold one CachedState restored earlier
CStart ==
    /\ cpOrig \in AnchorStates
    /\ \/ /\ heap = <<>>
          /\ stateCache = {}
          /\ checkpointStateCache = {}
       \/ \E earlier \in AnchorStates :
             /\ heap = <<createCachedBeaconState(earlier)>>
             /\ stateCache = {[key |-> HashBeaconState(earlier), obj |-> 1]}
             /\ checkpointStateCache =
                    {[key |-> computeAnchorCheckpoint(earlier).checkpoint, obj |-> 1]}

\* no cache is modelled
CIdle ==
    /\ cpOrig = CHOOSE st \in AnchorStates : st.slot = GENESIS_SLOT
    /\ heap = <<>>
    /\ stateCache = {}
    /\ checkpointStateCache = {}

CLocals ==
    /\ cpState = cpOrig
    /\ cpResults = <<>>
    /\ restored = 0

\* a call of computeAnchorCheckpoint on the state
C_Compute ==
    /\ Len(cpResults) < MaxCheckpointCalls
    /\ LET r == computeAnchorCheckpoint(cpState)
       IN  /\ cpResults' = Append(cpResults,
                                  [checkpoint |-> r.checkpoint, blockHeader |-> r.blockHeader])
           /\ cpState' = r.anchorState
    /\ UNCHANGED <<cpOrig, heap, stateCache, checkpointStateCache, restored>>
    /\ UNCHANGED notCVars

\* mutant: each cache is given a CachedState of its own
C_Restore_TwoObjects ==
    /\ restored < MaxRestores
    /\ LET r == computeAnchorCheckpoint(cpState)
           cachedBeaconState == createCachedBeaconState(r.anchorState)
       IN  /\ heap' = Append(Append(heap, cachedBeaconState), cachedBeaconState)
           /\ stateCache' =
                  CacheAdd(stateCache, HashBeaconState(cachedBeaconState.state), Len(heap) + 1)
           /\ checkpointStateCache' =
                  CacheAdd(checkpointStateCache, r.checkpoint, Len(heap) + 2)
           /\ cpState' = r.anchorState
    /\ restored' = restored + 1
    /\ UNCHANGED <<cpOrig, cpResults>>
    /\ UNCHANGED notCVars

\* restoreStateCaches(config, stateCache, checkpointStateCache, state)
C_Restore ==
    /\ restored < MaxRestores
    /\ LET r == computeAnchorCheckpoint(cpState)
           cachedBeaconState == createCachedBeaconState(r.anchorState)
           obj == Len(heap) + 1
       IN  /\ heap' = Append(heap, cachedBeaconState)
           /\ stateCache' =
                  CacheAdd(stateCache, HashBeaconState(cachedBeaconState.state), obj)
           /\ checkpointStateCache' = CacheAdd(checkpointStateCache, r.checkpoint, obj)
           /\ cpState' = r.anchorState
    /\ restored' = restored + 1
    /\ UNCHANGED <<cpOrig, cpResults>>
    /\ UNCHANGED notCVars

\* ------------------------------------------------------- specifications
\* verifyBlocks
Init == VBCalled /\ VBLocals /\ PBIdle /\ PBLocals /\ IIdle /\ ILocals /\ CIdle /\ CLocals

Next == VB_Enter \/ VB_Check \/ VB_Sign \/ VB_Resolve

Spec == Init /\ [][Next]_vars

\* processBlock
InitPB == VBIdle /\ VBLocals /\ PBCalled /\ PBLocals /\ IIdle /\ ILocals /\ CIdle /\ CLocals

NextPB == PB_Header \/ PB_Randao \/ PB_Eth1Data \/ PB_Operations \/ PB_VerifyStateRoot

SpecPB == InitPB /\ [][NextPB]_vars

\* initStateFromEth1, initStateFromAnchorState, initStateFromDb
InitInit == VBIdle /\ VBLocals /\ PBIdle /\ PBLocals /\ IStart /\ ILocals /\ CIdle /\ CLocals

NextInit ==
    \/ I_CallEth1 \/ I_GenesisResolved \/ I_GenesisAborted
    \/ I_CallAnchor
    \/ I_WriteDone \/ I_WriteFailed \/ I_JoinResolved \/ I_JoinRejected
    \/ I_CallDb

SpecInit == InitInit /\ [][NextInit]_vars

\* computeAnchorCheckpoint, restoreStateCaches
InitCache == VBIdle /\ VBLocals /\ PBIdle /\ PBLocals /\ IIdle /\ ILocals /\ CStart /\ CLocals

NextCache == C_Compute \/ C_Restore

SpecCache == InitCache /\ [][NextCache]_vars

\* ================================================================ claims
\* ------------------------------------------------- verifyBlocks (Spec)
Newest(bs) == bs[Len(bs)]

\* oldest first: the newest block hashes to the anchor and every older block
\* hashes to the parent root recorded by the block directly above it
LinkedChain(bs, anchor) ==
    /\ Len(bs) >= 1
    /\ HashTreeRoot(Newest(bs).message) = anchor
    /\ \A i \in 1..(Len(bs) - 1) : HashTreeRoot(bs[i].message) = bs[i + 1].message.parentRoot

ValidSignatures(st, bs) ==
    \A i \in 1..Len(bs) : SetValid(getProposerSignatureSet(st, bs[i]))

\* C1: a chain of N >= 1 blocks correctly linked to anchorRoot, with valid
\* proposer signatures, is verified without any BackfillSyncError.
C1_LinkedChainVerifies ==
    (pc = "done" /\ LinkedChain(argBlocks, anchorRoot) /\ ValidSignatures(state, argBlocks))
        => err = "none"

\* C2: after a block passes, the expected linking root is that block's parent
\* root; with the newest block anchored, a break further down the list ends
\* the call with NOT_LINEAR.
C2_LinkingRootPropagated ==
    /\ (pc = "loop" /\ idx > 1) => nextRoot = blocks[idx - 1].message.parentRoot
    /\ (/\ pc = "done"
        /\ Len(argBlocks) >= 2
        /\ HashTreeRoot(Newest(argBlocks).message) = anchorRoot
        /\ ~LinkedChain(argBlocks, anchorRoot))
           => err = "NOT_LINEAR"

\* C3: a newest block that does not hash to anchorRoot ends the call with
\* NOT_ANCHORED, and NOT_ANCHORED is reported for no other reason.
C3_NotAnchoredIffNewestMismatch ==
    pc = "done" =>
        /\ (Len(argBlocks) >= 1 /\ HashTreeRoot(Newest(argBlocks).message) # anchorRoot)
               => err = "NOT_ANCHORED"
        /\ err = "NOT_ANCHORED" => HashTreeRoot(Newest(argBlocks).message) # anchorRoot

\* C4: the batch verifier is invoked at most once, and only when the linkage
\* comparison of every block of the list has been made and has passed; a call
\* that ends with NOT_ANCHORED or NOT_LINEAR has not invoked it.
C4_BatchVerifierAfterLinkage ==
    /\ blsCalls <= 1
    /\ blsCalls >= 1 => (passed = Len(blocks) /\ compares = Len(blocks))
    /\ err \in {"NOT_ANCHORED", "NOT_LINEAR"} => blsCalls = 0

C4_Witness == pc = "done" /\ blsCalls = 1 /\ Len(argBlocks) >= 2

C6_EmptyListSucceeds ==
    Len(argBlocks) = 0 =>
        /\ pc \in {"call", "done"}
        /\ err = "none"
        /\ compares = 0
        /\ blsCalls = 0

C6_Witness ==
    pc = "done" /\ Len(argBlocks) = 0 /\ anchorRoot # ZERO_HASH /\ state.proposerPubkey = 2

\* ------------------------------------------------ processBlock (SpecPB)
StageOrder == <<"header", "randao", "eth1", "operations", "root">>

IsPrefix(s, t) == Len(s) <= Len(t) /\ \A i \in 1..Len(s) : s[i] = t[i]

FailedStage(code) ==
    CASE code = "INVALID_HEADER" -> "header"
      [] code = "INVALID_RANDAO" -> "randao"
      [] code = "INVALID_ETH1_DATA" -> "eth1"
      [] code = "INVALID_OPERATION" -> "operations"
      [] code = "STATE_ROOT_MISMATCH" -> "root"

\* whether the first n stages succeed on the state the call was given
FirstStagesOk(n) ==
    LET a == processBlockHeader(pbPre, pbBlock, pbVerify)
        b == processRandao(a.state, pbBlock.body)
        c == processEth1Data(b.state, pbBlock.body)
        d == processOperations(c.state, pbBlock.body)
    IN  /\ n >= 1 => a.ok
        /\ n >= 2 => b.ok
        /\ n >= 3 => c.ok
        /\ n >= 4 => d.ok

C9_StagesInOrder ==
    /\ IsPrefix(pbRan, StageOrder)
    /\ Len(pbRan) = Len(StageOrder) => pbVerify
    /\ pbPc \notin {"idle", "done", "failed"} =>
          /\ pbPc = StageOrder[Len(pbRan) + 1]
          /\ FirstStagesOk(Len(pbRan))
    /\ Len(pbRan) >= 1 => FirstStagesOk(Len(pbRan) - 1)
    /\ pbErr # "none" => (pbPc = "failed" /\ pbRan[Len(pbRan)] = FailedStage(pbErr))
    /\ pbPc = "failed" => pbErr # "none"
    /\ pbPc = "done" =>
          /\ pbErr = "none"
          /\ Len(pbRan) = IF pbVerify THEN Len(StageOrder) ELSE Len(StageOrder) - 1

C9_Witness == pbPc = "failed" /\ pbErr = "INVALID_ETH1_DATA" /\ Len(pbRan) = 3

\* C10: with verify set, processBlock succeeds only when the declared state
\* root is the hash of the state after the four stages; a block declaring
\* another root is rejected with the state-root mismatch.
C10_StateRootChecked ==
    LET after == StagesApplied(pbPre, pbBlock)
    IN  /\ (pbVerify /\ pbPc = "done") =>
              /\ after.ok
              /\ pbBlock.stateRoot = HashState(after.state)
              /\ pbBlock.stateRoot = HashState(pbState)
        /\ (/\ pbVerify
            /\ pbPc \in {"done", "failed"}
            /\ after.ok
            /\ pbBlock.stateRoot # HashState(after.state))
               => (pbPc = "failed" /\ pbErr = "STATE_ROOT_MISMATCH")
        /\ pbErr = "STATE_ROOT_MISMATCH" => (pbVerify /\ pbBlock.stateRoot # HashState(pbState))

C10_Witness == pbVerify /\ pbPc = "failed" /\ pbErr = "STATE_ROOT_MISMATCH"

\* the condition the four stages signal when they run with verify set on the
\* state the call was given: that of the first stage that fails, or "none"
FourStageOutcome ==
    LET a == processBlockHeader(pbPre, pbBlock, TRUE)
        b == processRandao(a.state, pbBlock.body)
        c == processEth1Data(b.state, pbBlock.body)
        d == processOperations(c.state, pbBlock.body)
    IN  IF ~a.ok THEN "INVALID_HEADER"
        ELSE IF ~b.ok THEN "INVALID_RANDAO"
        ELSE IF ~c.ok THEN "INVALID_ETH1_DATA"
        ELSE IF ~d.ok THEN "INVALID_OPERATION"
        ELSE "none"

C20_CallerListUnchanged == pc = "done" => blocks = argBlocks

\* ------------------------------------ anchor initialisation (SpecInit)
\* the stores an initialiser is to have written when it returns
WritesToJoin ==
    IF iEntry = "eth1"
    THEN {"stateArchive", "blockArchive", "depositDataRoot", "eth1Data"}
    ELSE IF iState.slot = GENESIS_SLOT THEN {"blockArchive", "stateArchive"}
    ELSE {"stateArchive"}

\* the genesis block of a state, field by field
GenesisBlockOf(st) ==
    [message |-> [slot |-> 0, proposerIndex |-> 0, parentRoot |-> ZERO_HASH,
                  stateRoot |-> HashBeaconState(st), body |-> 0],
     signature |-> 0]

LastOf(seq) == seq[Len(seq)]

\* C12: initStateFromEth1 and initStateFromAnchorState return a state only
\* when every write they issued has completed and is in its store; when a
\* write has failed the call does not return a state.
C12_SuccessAfterAllWrites ==
    /\ (iEntry \in {"eth1", "anchor"} /\ iPc = "returned") =>
          /\ iResult = <<iState>>
          /\ \A s \in WritesToJoin : wstatus[s] = "done"
          /\ db.stateArchive # <<>> /\ DeserializeState(LastOf(db.stateArchive)) = iState
          /\ "blockArchive" \in WritesToJoin =>
                (db.blockArchive # <<>> /\ LastOf(db.blockArchive) = GenesisBlockOf(iState))
          /\ iEntry = "eth1" =>
                /\ db.depositDataRoot = <<iGenesis.depositTree>>
                /\ \E e \in db.eth1Data :
                       /\ e.key = iGenesis.block.timestamp
                       /\ e.value.depositCount = Len(iGenesis.depositTree)
    /\ (iEntry \in {"eth1", "anchor"} /\ \E s \in Stores : wstatus[s] = "failed") =>
          (iPc # "returned" /\ iResult = <<>>)

C12_Witness ==
    /\ iEntry = "eth1"
    /\ iPc = "returned"
    /\ Len(iGenesis.depositTree) = MaxDeposits

\* C13: while initStateFromEth1 waits for genesis no write has been issued,
\* and a call whose wait was aborted has failed without any write issued.
C13_NoWriteBeforeGenesis ==
    /\ (iEntry = "eth1" /\ iPc = "waiting") => (wstatus = NoWrites /\ db = dbAtCall)
    /\ iErr = "aborted" =>
          /\ iPc = "failed"
          /\ iResult = <<>>
          /\ wstatus = NoWrites
          /\ db = dbAtCall

C13_Witness == iEntry = "eth1" /\ iPc = "failed" /\ iErr = "aborted"

\* C14: persistAnchorState writes the state to the state archive, and the
\* genesis block of the state to the block archive exactly when the state is
\* at the genesis slot; it writes nothing else.  The genesis block has the
\* hash of the state as state root and every other field at its default.
C14_GenesisBlockAtGenesisSlot ==
    iEntry = "anchor" =>
        /\ wstatus["stateArchive"] # "none"
        /\ wstatus["blockArchive"] # "none" <=> iState.slot = GENESIS_SLOT
        /\ wstatus["depositDataRoot"] = "none"
        /\ wstatus["eth1Data"] = "none"
        /\ db.stateArchive =
               IF wstatus["stateArchive"] = "done"
               THEN Append(dbAtCall.stateArchive, SerializeState(iState))
               ELSE dbAtCall.stateArchive
        /\ db.blockArchive =
               IF wstatus["blockArchive"] = "done"
               THEN Append(dbAtCall.blockArchive, GenesisBlockOf(iState))
               ELSE dbAtCall.blockArchive
        /\ db.depositDataRoot = dbAtCall.depositDataRoot
        /\ db.eth1Data = dbAtCall.eth1Data

C14_Witness ==
    /\ iEntry = "anchor"
    /\ iPc = "returned"
    /\ iState.slot = GENESIS_SLOT
    /\ db.blockArchive # <<>>

\* C15: initStateFromDb fails with the no-state error when the state archive
\* is empty, returns the last archived state otherwise, and writes nothing.
C15_NoStateInDbFails ==
    iEntry = "db" =>
        /\ db = dbAtCall
        /\ wstatus = NoWrites
        /\ dbAtCall.stateArchive = <<>> =>
              /\ iPc = "failed"
              /\ iErr = "No state exists in database"
              /\ iResult = <<>>
        /\ dbAtCall.stateArchive # <<>> =>
              /\ iPc = "returned"
              /\ iErr = "none"
              /\ iResult = <<DeserializeState(LastOf(dbAtCall.stateArchive))>>

C15_Witness == iEntry = "db" /\ iPc = "failed" /\ iErr = "No state exists in database"

\* C16: initStateFromDb called after initStateFromAnchorState(s) has returned
\* returns a state identical to s.
C16_AnchorRoundTrip ==
    (iEntry = "db" /\ prev # <<>> /\ prev[1].entry = "anchor") =>
        /\ iPc = "returned"
        /\ iResult = <<prev[1].state>>

C16_Witness ==
    /\ iEntry = "db"
    /\ prev # <<>>
    /\ prev[1].entry = "anchor"
    /\ iPc = "returned"
    /\ Len(db.stateArchive) = 2
    /\ db.stateArchive[1] # db.stateArchive[2]

\* --------------------------- anchor checkpoint and caches (SpecCache)
\* C17: every call of computeAnchorCheckpoint on the state returns the same
\* checkpoint and the same block header, and leaves the state, its
\* latestBlockHeader included, as it was.
C17_CheckpointIdempotent ==
    /\ \A i, j \in 1..Len(cpResults) : cpResults[i] = cpResults[j]
    /\ cpState = cpOrig
    /\ cpState.latestBlockHeader = cpOrig.latestBlockHeader

C17_Witness ==
    /\ Len(cpResults) = 2
    /\ cpOrig.latestBlockHeader.slot # GENESIS_SLOT
    /\ cpOrig.latestBlockHeader.stateRoot = ZERO_HASH
    /\ cpResults[1].blockHeader.stateRoot # ZERO_HASH

KeysUnique(cache) == \A e, f \in cache : e.key = f.key => e = f

\* C19: once restoreStateCaches has run, the root-indexed cache has one entry
\* under the state's root and the checkpoint-indexed cache one entry under the
\* state's anchor checkpoint; both are the CachedState object built last from
\* the state, and neither cache has two entries under one key.
C19_BothCachesHoldTheState ==
    /\ KeysUnique(stateCache)
    /\ KeysUnique(checkpointStateCache)
    /\ restored >= 1 =>
          \E e \in stateCache, f \in checkpointStateCache :
              /\ e.key = HashBeaconState(cpOrig)
              /\ f.key.epoch = computeEpochAtSlot(cpOrig.slot)
              /\ f.key = computeAnchorCheckpoint(cpOrig).checkpoint
              /\ e.obj = f.obj
              /\ e.obj = Len(heap)
              /\ heap[e.obj].state = cpOrig

C19_Witness ==
    /\ restored = 1
    /\ Len(heap) = 2
    /\ heap[1].state = cpOrig
    /\ Cardinality(stateCache) = 1
    /\ Cardinality(checkpointStateCache) = 1

====
